---- MODULE Spec2Model ----
(***************************************************************************)
(* my-music-list: catalog sync (src/src/ingest.py), title and key          *)
(* normalisation (src/src/spotify_client.py), the persisted schema         *)
(* (src/src/models.py) and duplicate-track state propagation               *)
(* (streamlit_app.py), as one state machine.                               *)
(*                                                                         *)
(* Conventions.                                                            *)
(*  - A Python str is a sequence of one-character strings.                 *)
(*  - A nullable value (Python None / SQL NULL) is a sequence of length    *)
(*    0 or 1: None is << >>, a value v is << v >>.                         *)
(*  - A table is a function from the stored primary keys to row records.   *)
(*  - Spotify identifiers are atoms (model strings) ordered by StrOf, the  *)
(*    characters they are made of; they hold no ',' and no ':'.            *)
(***************************************************************************)
EXTENDS Integers, Sequences, FiniteSets, TLC

\* ------------------------------------------------------------------------
\* nullable values
\* ------------------------------------------------------------------------
None == << >>
Some(v) == << v >>
IsNone(x) == x = << >>
Val(x) == x[1]
\* python `x or d` for a nullable x whose falsy value besides None is d itself
OrElse(x, d) == IF IsNone(x) THEN d ELSE Val(x)

\* ------------------------------------------------------------------------
\* characters and strings
\* ------------------------------------------------------------------------
UpperChars == <<"A","B","C","D","E","F","G","H","I","J","K","L","M",
                "N","O","P","Q","R","S","T","U","V","W","X","Y","Z">>
LowerChars == <<"a","b","c","d","e","f","g","h","i","j","k","l","m",
                "n","o","p","q","r","s","t","u","v","w","x","y","z">>
DigitChars == <<"0","1","2","3","4","5","6","7","8","9">>
Range(s) == { s[i] : i \in DOMAIN s }

\* str.lower() on one character
LowerChar(c) ==
  IF \E i \in DOMAIN UpperChars : UpperChars[i] = c
  THEN LowerChars[CHOOSE i \in DOMAIN UpperChars : UpperChars[i] = c]
  ELSE c
\* regex \w : letters, digits and the underscore
IsWordChar(c) == c \in Range(UpperChars) \cup Range(LowerChars) \cup Range(DigitChars) \cup {"_"}
\* regex \s and str.strip() whitespace
IsSpaceChar(c) == c \in {" ", "\t", "\n"}
\* the character class [\(\)\[\]\{\}]
IsBracketChar(c) == c \in {"(", ")", "[", "]", "{", "}"}

Min(a, b) == IF a < b THEN a ELSE b

\* the alternatives of VARIANT_WORDS; remaster(ed)? is its two expansions
VARIANT_WORDS ==
  { <<"d","e","l","u","x","e">>,
    <<"e","x","p","a","n","d","e","d">>,
    <<"r","e","m","a","s","t","e","r">>,
    <<"r","e","m","a","s","t","e","r","e","d">>,
    <<"c","l","e","a","n">>,
    <<"b","o","n","u","s">>,
    <<"a","n","n","i","v","e","r","s","a","r","y">>,
    <<"c","o","m","m","e","n","t","a","r","y">>,
    <<"i","n","s","t","r","u","m","e","n","t","a","l">>,
    <<"e","d","i","t">>,
    <<"e","x","p","l","i","c","i","t">> }

\* regex \b between t[p-1] and t[p] (positions outside the string are non-word)
WordBoundary(t, p) ==
  LET before == p - 1 >= 1 /\ p - 1 <= Len(t) /\ IsWordChar(t[p - 1])
      after  == p >= 1 /\ p <= Len(t) /\ IsWordChar(t[p])
  IN before # after

\* does \b(word)\b match with the word starting at position i, re.I on both sides
VariantMatchAt(t, i, w) ==
  /\ i + Len(w) - 1 <= Len(t)
  /\ \A k \in 1..Len(w) : LowerChar(t[i + k - 1]) = w[k]
  /\ WordBoundary(t, i)
  /\ WordBoundary(t, i + Len(w))

\* length of the match of VARIANT_WORDS that starts at i, 0 when there is none
\* (two alternatives cannot both end on a boundary, so the match is unique)
VariantMatchLen(t, i) ==
  IF \E w \in VARIANT_WORDS : VariantMatchAt(t, i, w)
  THEN Len(CHOOSE w \in VARIANT_WORDS : VariantMatchAt(t, i, w))
  ELSE 0

\* VARIANT_WORDS.sub("", t): leftmost non-overlapping matches removed, scanning from i
RECURSIVE SubVariantFrom(_, _)
SubVariantFrom(t, i) ==
  IF i > Len(t) THEN << >>
  ELSE LET n == VariantMatchLen(t, i)
       IN IF n > 0 THEN SubVariantFrom(t, i + n)
          ELSE <<t[i]>> \o SubVariantFrom(t, i + 1)

\* re.sub(r"\s+", " ", t): every maximal run of whitespace becomes one space
RECURSIVE CollapseSpaceFrom(_, _)
CollapseSpaceFrom(t, i) ==
  IF i > Len(t) THEN << >>
  ELSE IF IsSpaceChar(t[i])
       THEN IF i > 1 /\ IsSpaceChar(t[i - 1])
            THEN CollapseSpaceFrom(t, i + 1)
            ELSE <<" ">> \o CollapseSpaceFrom(t, i + 1)
       ELSE <<t[i]>> \o CollapseSpaceFrom(t, i + 1)

\* str.strip()
RECURSIVE Strip(_)
Strip(t) ==
  IF t = << >> THEN t
  ELSE IF IsSpaceChar(t[1]) THEN Strip(Tail(t))
  ELSE IF IsSpaceChar(t[Len(t)]) THEN Strip(SubSeq(t, 1, Len(t) - 1))
  ELSE t

\* normalize_title with the whitespace collapsed before the variant words are removed
normalize_title_collapse_first(title) ==
  LET lowered   == [i \in DOMAIN title |-> LowerChar(title[i])]
      unbracket == [i \in DOMAIN lowered |-> IF IsBracketChar(lowered[i]) THEN " " ELSE lowered[i]]
  IN Strip(SubVariantFrom(CollapseSpaceFrom(unbracket, 1), 1))

\* normalize_title: lower, brackets to spaces, variant words out, whitespace collapsed
normalize_title(title) ==
  LET lowered   == [i \in DOMAIN title |-> LowerChar(title[i])]
      unbracket == [i \in DOMAIN lowered |-> IF IsBracketChar(lowered[i]) THEN " " ELSE lowered[i]]
      dropped   == SubVariantFrom(unbracket, 1)
  IN Strip(CollapseSpaceFrom(dropped, 1))

\* ------------------------------------------------------------------------
\* identifiers, ordering and formatting
\* ------------------------------------------------------------------------
Artists    == {"A1", "A2"}
ReleaseIds == {"R1", "R2", "R3"}
TrackIds   == {"T1", "T2", "T3"}
Groups     == {"album", "single", "compilation", "appears_on"}   \* RELEASE_GROUP

\* the characters of an atom (an identifier or a catalog-group word)
StrOf(x) ==
  CASE x = "A1" -> <<"A","1">>
    [] x = "A2" -> <<"A","2">>
    [] x = "A3" -> <<"A","3">>
    [] x = "R1" -> <<"R","1">>
    [] x = "R2" -> <<"R","2">>
    [] x = "R3" -> <<"R","3">>
    [] x = "T1" -> <<"T","1">>
    [] x = "T2" -> <<"T","2">>
    [] x = "T3" -> <<"T","3">>
    [] x = "album"       -> <<"a","l","b","u","m">>
    [] x = "single"      -> <<"s","i","n","g","l","e">>
    [] x = "compilation" -> <<"c","o","m","p","i","l","a","t","i","o","n">>
    [] x = "appears_on"  -> <<"a","p","p","e","a","r","s","_","o","n">>

\* code point order of the characters used: digits < upper case < '_' < lower case
CodeOrder == DigitChars \o UpperChars \o <<"_">> \o LowerChars
CharCode(c) == CHOOSE i \in DOMAIN CodeOrder : CodeOrder[i] = c

\* python str comparison a < b
RECURSIVE StrLess(_, _)
StrLess(a, b) ==
  IF b = << >> THEN FALSE
  ELSE IF a = << >> THEN TRUE
  ELSE IF a[1] = b[1] THEN StrLess(Tail(a), Tail(b))
  ELSE CharCode(a[1]) < CharCode(b[1])

IdLess(x, y) == StrLess(StrOf(x), StrOf(y))

\* the list left in the order given
Unsorted(ids) == ids

\* sorted(ids): ascending by string order, duplicates kept
RECURSIVE InsertSorted(_, _)
InsertSorted(x, s) ==
  IF s = << >> THEN <<x>>
  ELSE IF IdLess(s[1], x) THEN <<s[1]>> \o InsertSorted(x, Tail(s))
  ELSE <<x>> \o s
RECURSIVE Sorted(_)
Sorted(ids) == IF ids = << >> THEN << >> ELSE InsertSorted(ids[1], Sorted(Tail(ids)))

\* sep.join(parts) for a sequence of strings
RECURSIVE Join(_, _)
Join(parts, sep) ==
  IF parts = << >> THEN << >>
  ELSE IF Len(parts) = 1 THEN parts[1]
  ELSE parts[1] \o sep \o Join(Tail(parts), sep)

\* csv.split(","): the pieces between commas, from position i with piece cur open
RECURSIVE SplitFrom(_, _, _)
SplitFrom(csv, i, cur) ==
  IF i > Len(csv) THEN <<cur>>
  ELSE IF csv[i] = "," THEN <<cur>> \o SplitFrom(csv, i + 1, << >>)
  ELSE SplitFrom(csv, i + 1, Append(cur, csv[i]))
SplitComma(csv) == SplitFrom(csv, 1, << >>)

\* str(n) for n >= 0
RECURSIVE IntStr(_)
IntStr(n) == IF n < 10 THEN <<DigitChars[n + 1]>> ELSE IntStr(n \div 10) \o <<DigitChars[(n % 10) + 1]>>

KeySep == <<":", ":">>

\* canonical_key with the year left out of the key
canonical_key_no_year(title, release_date, group) ==
  LET tt == normalize_title(OrElse(title, << >>))
      gg == IF IsNone(group) THEN << >> ELSE StrOf(Val(group))
  IN tt \o KeySep \o KeySep \o gg

\* canonical_key of a release: normalized title :: year :: album_group
canonical_key(title, release_date, group) ==
  LET tt   == normalize_title(OrElse(title, << >>))
      rd   == OrElse(release_date, << >>)
      year == SubSeq(rd, 1, Min(4, Len(rd)))
      gg   == IF IsNone(group) THEN << >> ELSE StrOf(Val(group))
  IN tt \o KeySep \o year \o KeySep \o gg

\* canonical_track_key with the duration kept in milliseconds
canonical_track_key_ms(title, duration_ms, artist_ids) ==
  LET t          == normalize_title(OrElse(title, << >>))
      ids_sorted == Join([i \in DOMAIN Sorted(OrElse(artist_ids, << >>)) |->
                            StrOf(Sorted(OrElse(artist_ids, << >>))[i])], <<",">>)
  IN t \o KeySep \o IntStr(OrElse(duration_ms, 0)) \o KeySep \o ids_sorted

\* canonical_track_key: normalized title :: whole seconds :: sorted artist ids
canonical_track_key(title, duration_ms, artist_ids) ==
  LET t          == normalize_title(OrElse(title, << >>))
      d_sec      == OrElse(duration_ms, 0) \div 1000
      ids_sorted == Join([i \in DOMAIN Sorted(OrElse(artist_ids, << >>)) |->
                            StrOf(Sorted(OrElse(artist_ids, << >>))[i])], <<",">>)
  IN t \o KeySep \o IntStr(d_sec) \o KeySep \o ids_sorted

\* a value of an integer field that int() rejects (a text such as 'n/a'): told from
\* None (<< >>) and from an integer n (<< n >>) by its length
NotANumber == <<0, 0>>
IsNotANumber(x) == Len(x) = 2

\* _safe_int: None stays None, an integer is returned, a value int() rejects gives None
safe_int(x) == IF IsNotANumber(x) THEN None ELSE x

\* ------------------------------------------------------------------------
\* what the catalog source (the spotipy client sp) can answer
\* ------------------------------------------------------------------------
MaxSyncs == 2          \* syncs started in one behaviour of SpecSync
MaxRuns  == 1          \* syncs started in one behaviour of Spec

ReleaseOrder == <<"R1", "R2", "R3">>

TitleMidDeluxe   == <<"M","i","d"," ","(","D","e","l","u","x","e",")">>
TitleMid         == <<"M","i","d">>
TitleMidRemaster == <<"M","I","D"," ","[","R","e","m","a","s","t","e","r","e","d","]">>
TitleFeelIt      == <<"F","e","e","l"," ","I","t">>
TitleFeelItLower == <<"f","e","e","l"," ","i","t">>
Date2020May      == <<"2","0","2","0","-","0","5">>
Date2020         == <<"2","0","2","0">>
Date2021         == <<"2","0","2","1">>

AlbumItem(id, name, group, date, total) ==
  [id |-> id, name |-> name, album_group |-> group, release_date |-> date, total_tracks |-> total]

\* the items sp.artist_albums may report for release r in the catalog of artist a
AlbumItems(a, r) ==
  CASE a = "A1" /\ r = "R1" ->
         { AlbumItem("R1", TitleMidDeluxe, Some("album"), Some(Date2020May), Some(16)) }
    [] a = "A1" /\ r = "R2" ->
         { AlbumItem("R2", TitleMid, Some("album"), Some(Date2020), Some(12)),
           AlbumItem("R2", TitleMid, Some("album"), Some(Date2020), None) }
    [] a = "A1" /\ r = "R3" ->
         { AlbumItem("R3", TitleMidRemaster, Some("album"), Some(Date2020), Some(12)),
           AlbumItem("R3", TitleMidRemaster, Some("album"), Some(Date2020), Some(20)),
           AlbumItem("R3", TitleMidRemaster, None, Some(Date2020), Some(20)),
           AlbumItem("R3", TitleMidRemaster, Some("album"), Some(Date2021), Some(20)) }
    [] a = "A2" /\ r = "R2" ->
         { AlbumItem("R2", TitleMid, Some("appears_on"), Some(Date2020), Some(12)),
           AlbumItem("R2", TitleMid, Some("appears_on"), Some(Date2020), NotANumber) }
    [] a = "A2" /\ r = "R3" ->
         { AlbumItem("R3", TitleMidRemaster, Some("appears_on"), Some(Date2020), Some(20)),
           AlbumItem("R3", TitleMidRemaster, Some("album"), Some(Date2020), Some(20)) }
    [] OTHER -> { }

\* the complete answers of sp.artist_albums for each artist: at most one item per
\* release id, in the source's order
Listings ==
  [a \in Artists |->
    { Join([i \in DOMAIN ReleaseOrder |-> f[ReleaseOrder[i]]], << >>) :
        f \in { g \in [ReleaseIds -> {None} \cup { Some(it) : it \in UNION { AlbumItems(a, r) : r \in ReleaseIds } }] :
                  \A r \in ReleaseIds : g[r] # None => Val(g[r]) \in AlbumItems(a, r) } }]

\* the answers of sp.artist(a)
SpArtists(a) == { [name |-> "n1", image |-> None], [name |-> "n2", image |-> Some("img")] }

SpTrack(id, name, dur, artists, isrc) ==
  [id |-> id, name |-> name, duration_ms |-> dur, artists |-> artists, isrc |-> isrc]

\* the answers of sp.album(r), with each track's isrc as sp.tracks reports it;
\* a track id belongs to one release, and an entry can come without an id
SpAlbums(r) ==
  CASE r = "R1" ->
         { [upc |-> Some("upc1"),
            items |-> << SpTrack(Some("T1"), Some(TitleFeelIt), Some(200000), <<"A1">>, None) >>] }
    [] r = "R2" ->
         { [upc |-> None,
            items |-> << SpTrack(Some("T2"), Some(TitleFeelItLower), Some(200450), <<"A1">>, None) >>],
           [upc |-> None, items |-> << >>] }
    [] r = "R3" ->
         { [upc |-> None,
            items |-> << SpTrack(None, Some(TitleFeelIt), Some(201000), <<"A2">>, None),
                         SpTrack(Some("T3"), Some(TitleFeelIt), Some(201000), <<"A2", "A1">>, Some("isrc3")) >>] }

\* fetch_artist_releases_df: one row per item, with its canonical_key column
ReleaseRow(it) ==
  [id |-> it.id, title |-> it.name, group |-> it.album_group,
   release_date |-> it.release_date, total_tracks |-> it.total_tracks,
   canonical_key |-> canonical_key(Some(it.name), it.release_date, it.album_group)]
fetch_artist_releases_df(listing) == [i \in DOMAIN listing |-> ReleaseRow(listing[i])]

\* the data frames ingest_artist can get for each artist
Frames == [a \in Artists |-> { fetch_artist_releases_df(listing) : listing \in Listings[a] }]

\* hydrate_album: (album object, tracks_out); an entry of tracks_out has the keys
\* id, title, duration_ms, isrc and no other
hydrate_album(album) ==
  [alb    |-> [upc |-> album.upc],
   tracks |-> [i \in DOMAIN album.items |->
                 [id |-> album.items[i].id, title |-> album.items[i].name,
                  duration_ms |-> album.items[i].duration_ms,
                  isrc |-> IF IsNone(album.items[i].id) THEN None ELSE album.items[i].isrc]]]

\* ------------------------------------------------------------------------
\* persisted tables (models.py) and the two kinds of caller
\* ------------------------------------------------------------------------
VARIABLES
  artists,    \* Artist:         id -> [name, image]
  releases,   \* Release:        id -> [title, group, release_date, total_tracks,
              \*                        is_variant, variant_of, upc]
  links,      \* ArtistRelease:  <<artist_id, release_id>> -> role
  tracks,     \* Track:          id -> [release_id, title, duration_ms, isrc,
              \*                        artist_ids_csv, primary_artist_id, canonical_key]
  uts,        \* UserTrackState: track_id -> [listened, rating]
  urs,        \* UserReleaseState: release_id -> [listened, rating]
  sync,       \* per session running ingest_artist: its position and locals
  prop,       \* the call of propagate_track_state in progress, its session's pending rows
  nSync,      \* syncs started so far
  call        \* the read-only calls made (key computation, rating, completion) and their results

vars == <<artists, releases, links, tracks, uts, urs, sync, prop, nSync, call>>

EmptyTable == << >>
\* no read-only call has been made
NoCall == << >>
Put(table, key, row) == [k \in DOMAIN table \cup {key} |-> IF k = key THEN row ELSE table[k]]

\* upsert_artist_row
upsert_artist_row(tbl, artist_id, name, image) ==
  Put(tbl, artist_id, [name |-> name, image |-> image])

\* ---- step 3: variant map ------------------------------------------------
group_rank(row)  == IF OrElse(row.group, "zzz") = "album" THEN 0 ELSE 1
tracks_rank(row) == OrElse(row.total_tracks, 0)

\* fillna(0).astype(int) raises ValueError on a count that is not a number; the loop
\* of step 3 calls pick_canonical_df on every group of the data frame
astype_int_raises(df) == \E i \in DOMAIN df : IsNotANumber(df[i].total_tracks)

\* the sort with ascending = [True, True, True]: fewest tracks first
SortsBeforeAscending(x, y) ==
  \/ group_rank(x) < group_rank(y)
  \/ group_rank(x) = group_rank(y) /\ tracks_rank(x) < tracks_rank(y)
  \/ group_rank(x) = group_rank(y) /\ tracks_rank(x) = tracks_rank(y) /\ IdLess(x.id, y.id)

\* the sort order of pick_canonical_df: group_rank ascending, tracks_rank
\* descending, id ascending
SortsBefore(x, y) ==
  \/ group_rank(x) < group_rank(y)
  \/ group_rank(x) = group_rank(y) /\ tracks_rank(x) > tracks_rank(y)
  \/ group_rank(x) = group_rank(y) /\ tracks_rank(x) = tracks_rank(y) /\ IdLess(x.id, y.id)

\* pick_canonical_df: the first row of the sorted group
pick_canonical_df(grp) == CHOOSE x \in grp : \A y \in grp \ {x} : SortsBefore(x, y)

\* df.groupby("canonical_key"): the group that holds row
GroupOf(df, row) == { x \in Range(df) : x.canonical_key = row.canonical_key }

\* the dict variant_of of ingest_artist: every non-canonical id -> its group's canonical id
VariantMap(df) ==
  LET canon(row) == pick_canonical_df(GroupOf(df, row)).id
      rowOf(rid) == CHOOSE x \in Range(df) : x.id = rid
  IN [rid \in { x.id : x \in { y \in Range(df) : y.id # canon(y) } } |-> canon(rowOf(rid))]

\* ---- step 4: upsert releases and the artist link ------------------------
upsert_release(tbl, row) ==
  IF row.id \in DOMAIN tbl
  THEN [tbl EXCEPT ![row.id] =
          [@ EXCEPT !.title = row.title, !.group = row.group,
                    !.release_date = row.release_date,
                    !.total_tracks = safe_int(row.total_tracks)]]
  ELSE Put(tbl, row.id,
           [title |-> row.title, group |-> row.group, release_date |-> row.release_date,
            total_tracks |-> safe_int(row.total_tracks),
            is_variant |-> FALSE, variant_of |-> None, upc |-> None])

link_role(row) == IF OrElse(row.group, "") # "appears_on" THEN "primary" ELSE "appears_on"

\* step 4 adding the link when it is missing and leaving a stored role as it is
upsert_link_keep_role(tbl, artist_id, row) ==
  IF <<artist_id, row.id>> \in DOMAIN tbl THEN tbl
  ELSE Put(tbl, <<artist_id, row.id>>, link_role(row))

\* the ArtistRelease row (artist_id, row.id): added with link_role, or its role set to it
upsert_link(tbl, artist_id, row) == Put(tbl, <<artist_id, row.id>>, link_role(row))

RECURSIVE Step4Releases(_, _)
Step4Releases(tbl, df) ==
  IF df = << >> THEN tbl ELSE Step4Releases(upsert_release(tbl, df[1]), Tail(df))

RECURSIVE Step4Links(_, _, _)
Step4Links(tbl, artist_id, df) ==
  IF df = << >> THEN tbl ELSE Step4Links(upsert_link(tbl, artist_id, df[1]), artist_id, Tail(df))

\* ---- step 5: upc and the release's track set -----------------------------
\* the Track built from one entry t of tracks_out
TrackRow(rid, t) ==
  LET ids        == IF "artist_ids" \in DOMAIN t THEN t.artist_ids ELSE << >>
      primary_id == IF ids # << >> THEN Some(ids[1]) ELSE None
  IN [id |-> Val(t.id), release_id |-> rid, title |-> OrElse(t.title, << >>),
      duration_ms |-> safe_int(t.duration_ms), isrc |-> t.isrc,
      artist_ids_csv |-> Join([i \in DOMAIN ids |-> StrOf(ids[i])], <<",">>),
      primary_artist_id |-> primary_id,
      canonical_key |-> canonical_track_key(t.title, t.duration_ms, Some(ids))]

\* the rows appended for a release: entries without an id are skipped
TrackRows(rid, tracks_out) ==
  { TrackRow(rid, tracks_out[i]) : i \in { j \in DOMAIN tracks_out : ~IsNone(tracks_out[j].id) } }

\* the appends without rel.tracks.clear(): the rows stored for the release stay
replace_tracks_no_clear(tbl, rid, rows) ==
  LET new  == { x.id : x \in rows }
      strip(x) == [f \in DOMAIN x \ {"id"} |-> x[f]]
  IN [k \in DOMAIN tbl \cup new |->
        IF k \in new THEN strip(CHOOSE x \in rows : x.id = k) ELSE tbl[k]]

\* rel.tracks.clear() and the appends: the release's rows deleted, the fresh ones stored
replace_tracks(tbl, rid, rows) ==
  LET kept == { k \in DOMAIN tbl : tbl[k].release_id # rid }
      new  == { x.id : x \in rows }
      strip(x) == [f \in DOMAIN x \ {"id"} |-> x[f]]
  IN [k \in kept \cup new |->
        IF k \in new THEN strip(CHOOSE x \in rows : x.id = k) ELSE tbl[k]]

hydrate_release(rels, rid, hyd) ==
  IF rid \in DOMAIN rels THEN [rels EXCEPT ![rid].upc = hyd.alb.upc] ELSE rels

hydrate_tracks(rels, tbl, rid, hyd) ==
  IF rid \in DOMAIN rels THEN replace_tracks(tbl, rid, TrackRows(rid, hyd.tracks)) ELSE tbl

\* the writes of the loop of step 5 for df[1..Len(albs)], albs[i] being sp's answer for df[i]
RECURSIVE Step5Releases(_, _, _)
Step5Releases(rels, df, albs) ==
  IF albs = << >> THEN rels
  ELSE Step5Releases(hydrate_release(rels, df[1].id, hydrate_album(albs[1])), Tail(df), Tail(albs))

RECURSIVE Step5Tracks(_, _, _, _)
Step5Tracks(rels, tbl, df, albs) ==
  IF albs = << >> THEN tbl
  ELSE Step5Tracks(rels, hydrate_tracks(rels, tbl, df[1].id, hydrate_album(albs[1])), Tail(df), Tail(albs))

\* step 6 without its else branch: a canonical release keeps what was stored
mark_variant_no_clear(tbl, rid, variant_of) ==
  IF rid \notin DOMAIN tbl THEN tbl
  ELSE IF rid \in DOMAIN variant_of
       THEN [tbl EXCEPT ![rid].is_variant = TRUE, ![rid].variant_of = Some(variant_of[rid])]
       ELSE tbl

\* step 6 resolving a target that is stored as a variant through its stored link
mark_variant_follow(tbl, rid, variant_of) ==
  IF rid \notin DOMAIN tbl THEN tbl
  ELSE IF rid \in DOMAIN variant_of
       THEN LET target == variant_of[rid]
                canon  == IF target \in DOMAIN tbl /\ tbl[target].is_variant
                             /\ tbl[target].variant_of # None /\ tbl[target].variant_of # Some(rid)
                          THEN tbl[target].variant_of ELSE Some(target)
            IN [tbl EXCEPT ![rid].is_variant = TRUE, ![rid].variant_of = canon]
       ELSE [tbl EXCEPT ![rid].is_variant = FALSE, ![rid].variant_of = None]

\* ---- step 6: mark variants ----------------------------------------------
mark_variant(tbl, rid, variant_of) ==
  IF rid \notin DOMAIN tbl THEN tbl
  ELSE IF rid \in DOMAIN variant_of
       THEN [tbl EXCEPT ![rid].is_variant = TRUE, ![rid].variant_of = Some(variant_of[rid])]
       ELSE [tbl EXCEPT ![rid].is_variant = FALSE, ![rid].variant_of = None]

RECURSIVE Step6Releases(_, _, _)
Step6Releases(tbl, df, variant_of) ==
  IF df = << >> THEN tbl
  ELSE Step6Releases(mark_variant(tbl, df[1].id, variant_of), Tail(df), variant_of)

\* ---- the whole of ingest_artist on the four catalog tables -------------------
\* obj is sp.artist's answer, df the data frame, albs[i] sp.album's answer for df[i]
ingest_artist(db, artist_id, obj, df, albs) ==
  LET a1 == upsert_artist_row(db.artists, artist_id, obj.name, obj.image)
      r4 == Step4Releases(db.releases, df)
      l4 == Step4Links(db.links, artist_id, df)
      r5 == Step5Releases(r4, df, albs)
      t5 == Step5Tracks(r4, db.tracks, df, albs)
      r6 == Step6Releases(r5, df, VariantMap(df))
  IN IF df = << >> \/ astype_int_raises(df)
     THEN [db EXCEPT !.artists = a1]
     ELSE [artists |-> a1, releases |-> r6, links |-> l4, tracks |-> t5]

\* ------------------------------------------------------------------------
\* ingest_artist, one action per committed step (and per hydrate call)
\* ------------------------------------------------------------------------
Sessions == {"s1"}

\* pending: the releases whose step 5 writes (upc, track set) the session holds uncommitted
SyncIdle == [pc |-> "idle", artist_id |-> "", df |-> << >>, variant_of |-> << >>, albs |-> << >>,
             seen |-> EmptyTable, unloaded |-> { }, pending |-> { }]

\* the Release objects a session works on: for the ids in `fresh` the identity map has
\* dropped the object and db.get reloads the row, for the others it returns the object
\* the session loaded before (expire_on_commit=False keeps its attributes)
View(s, fresh) ==
  [rid \in DOMAIN releases |->
     IF rid \in DOMAIN sync[s].seen /\ rid \notin fresh THEN sync[s].seen[rid] ELSE releases[rid]]

\* the attributes the session has never loaded nor set on an object it still holds:
\* the ones left out of Release(...) for a row this session inserted
Unloaded(s, fresh) == { x \in sync[s].unloaded : x[1] \notin fresh }

\* the flush of the session's changes: a new object is inserted, a loaded one gets an
\* UPDATE of the columns whose value changed on the object, and of the columns in
\* `forced`, assigned without a loaded value to compare with
Flush(tbl, view, after, forced) ==
  [rid \in DOMAIN after |->
     IF rid \notin DOMAIN tbl THEN after[rid]
     ELSE [f \in DOMAIN after[rid] |->
             IF after[rid][f] # view[rid][f] \/ <<rid, f>> \in forced
             THEN after[rid][f] ELSE tbl[rid][f]]]

\* the held objects for which a reload can make a difference: the row has changed
\* since the session loaded it, or the object has an attribute never loaded
Reloadable(s) ==
  { rid \in DOMAIN sync[s].seen :
      \/ rid \in DOMAIN releases /\ sync[s].seen[rid] # releases[rid]
      \/ \E x \in sync[s].unloaded : x[1] = rid }

\* the objects of the fetched releases as the session holds them after its writes
Held(after, df) == [rid \in { df[i].id : i \in DOMAIN df } |-> after[rid]]

\* no call of propagate_track_state is in progress
PropQuiet == prop.pc = "idle"
\* no session is inside ingest_artist
SyncQuiet == \A s \in DOMAIN sync : sync[s].pc \in {"idle", "done", "failed"}

\* step 1: fetch_artist, upsert the Artist row, commit
SyncStart(s, a) ==
  /\ sync[s].pc \in {"idle", "done", "failed"}
  /\ \E obj \in SpArtists(a) :
       artists' = upsert_artist_row(artists, a, obj.name, obj.image)
  /\ sync' = [sync EXCEPT ![s] = [SyncIdle EXCEPT !.pc = "s2", !.artist_id = a]]
  /\ nSync' = nSync + 1
  /\ UNCHANGED <<releases, links, tracks, uts, prop, urs, call>>

\* steps 2 to 4: fetch the releases; none: return; else variant map (an exception
\* of pick_canonical_df leaves ingest_artist), upserts, commit
SyncReleases(s) ==
  /\ sync[s].pc = "s2"
  /\ \E df \in Frames[sync[s].artist_id] :
       IF df = << >>
       THEN /\ sync' = [sync EXCEPT ![s].pc = "done"]
            /\ UNCHANGED <<releases, links>>
       ELSE IF astype_int_raises(df)
       THEN /\ sync' = [sync EXCEPT ![s].pc = "failed", ![s].df = df]
            /\ UNCHANGED <<releases, links>>
       ELSE /\ sync' = [sync EXCEPT ![s].pc = "s5", ![s].df = df,
                                    ![s].variant_of = VariantMap(df),
                                    ![s].seen = Held(Step4Releases(releases, df), df),
                                    ![s].unloaded =
                                       { <<df[i].id, f>> : i \in { j \in DOMAIN df : df[j].id \notin DOMAIN releases },
                                                           f \in {"upc", "variant_of"} }]
            /\ releases' = Step4Releases(releases, df)
            /\ links' = Step4Links(links, sync[s].artist_id, df)
  /\ UNCHANGED <<artists, tracks, uts, prop, nSync, urs, call>>

\* one turn of the loop of step 5 with a commit at its end
SyncHydrateCommitEach(s) ==
  /\ sync[s].pc = "s5"
  /\ Len(sync[s].albs) < Len(sync[s].df)
  /\ \E album \in SpAlbums(sync[s].df[Len(sync[s].albs) + 1].id) :
       LET rid == sync[s].df[Len(sync[s].albs) + 1].id
       IN /\ sync' = [sync EXCEPT ![s].albs = Append(@, album)]
          /\ releases' = hydrate_release(releases, rid, hydrate_album(album))
          /\ tracks' = hydrate_tracks(releases, tracks, rid, hydrate_album(album))
  /\ UNCHANGED <<artists, links, uts, prop, nSync, urs, call>>

\* step 5, one turn of the loop: hydrate_album answers for the next release, then
\* db.get, rel.upc = ..., rel.tracks.clear() and the appends; the writes for it stay
\* pending in the session while the loop goes on to the next hydrate_album
SyncHydrate(s) ==
  /\ sync[s].pc = "s5"
  /\ Len(sync[s].albs) < Len(sync[s].df)
  /\ \E album \in SpAlbums(sync[s].df[Len(sync[s].albs) + 1].id) :
       sync' = [sync EXCEPT ![s].albs = Append(@, album),
                            ![s].pending =
                               @ \cup ({sync[s].df[Len(sync[s].albs) + 1].id} \cap DOMAIN releases)]
  /\ UNCHANGED <<artists, releases, links, tracks, uts, prop, nSync, urs, call>>

\* the commit of step 5 with the user state of every deleted track deleted with it
SyncTracksCascade(s) ==
  /\ sync[s].pc = "s5"
  /\ Len(sync[s].albs) = Len(sync[s].df)
  /\ releases' = Step5Releases(releases, sync[s].df, sync[s].albs)
  /\ tracks' = Step5Tracks(releases, tracks, sync[s].df, sync[s].albs)
  /\ uts' = [k \in { x \in DOMAIN uts :
                       x \in DOMAIN tracks =>
                         \A i \in DOMAIN sync[s].df : tracks[x].release_id # sync[s].df[i].id } |->
               uts[k]]
  /\ sync' = [sync EXCEPT ![s].pc = "s6", ![s].seen = Held(releases', sync[s].df),
                           ![s].pending = { }]
  /\ UNCHANGED <<artists, links, prop, nSync, urs, call>>

\* step 5, the commit after the loop
SyncTracks(s) ==
  /\ sync[s].pc = "s5"
  /\ Len(sync[s].albs) = Len(sync[s].df)
  /\ \E fresh \in SUBSET Reloadable(s) :
       LET view  == View(s, fresh)
           after == Step5Releases(view, sync[s].df, sync[s].albs)
       IN /\ releases' = Flush(releases, view, after,
                               { x \in Unloaded(s, fresh) : x[2] = "upc" })
          /\ sync' = [sync EXCEPT ![s].pc = "s6", ![s].seen = Held(after, sync[s].df),
                                   ![s].unloaded = { x \in Unloaded(s, fresh) : x[2] # "upc" },
                                   ![s].pending = { }]
  /\ tracks' = Step5Tracks(releases, tracks, sync[s].df, sync[s].albs)
  /\ UNCHANGED <<artists, links, uts, prop, nSync, urs, call>>

\* step 6: mark variants, commit
SyncVariants(s) ==
  /\ sync[s].pc = "s6"
  /\ \E fresh \in SUBSET Reloadable(s) :
       LET view  == View(s, fresh)
           after == Step6Releases(view, sync[s].df, sync[s].variant_of)
       IN /\ releases' = Flush(releases, view, after,
                               { x \in Unloaded(s, fresh) : x[2] = "variant_of" })
          /\ sync' = [sync EXCEPT ![s].pc = "done", ![s].seen = Held(after, sync[s].df),
                                   ![s].unloaded = { }]
  /\ UNCHANGED <<artists, links, tracks, uts, prop, nSync, urs, call>>

\* a fetch raises (fetch_artist_releases_df, or hydrate_album inside the loop): the
\* exception leaves ingest_artist and the session closes, dropping what is pending
SyncFail(s) ==
  /\ \/ sync[s].pc = "s2"
     \/ sync[s].pc = "s5" /\ Len(sync[s].albs) < Len(sync[s].df)
  /\ sync' = [sync EXCEPT ![s].pc = "failed", ![s].pending = { }]
  /\ UNCHANGED <<artists, releases, links, tracks, uts, prop, nSync, urs, call>>

\* ------------------------------------------------------------------------
\* propagate_track_state
\* ------------------------------------------------------------------------
Ratings == {6, 8}

PropIdle == [pc |-> "idle", track_id |-> "", artist_id |-> "", listened |-> None,
             rating |-> None, todo |-> { }, rows |-> EmptyTable]

\* python truthiness of a nullable identifier
Truthy(x) == ~IsNone(x) /\ Val(x) # ""

\* the query narrowed to the rows equal to the target's: no duplicate is found
MatchesSelfOnly(tbl, t) == { k \in DOMAIN tbl : tbl[k] = t }

\* the query result `matches` for the track row t
Matches(tbl, t) ==
  IF t.canonical_key # << >>
  THEN { k \in DOMAIN tbl : tbl[k].canonical_key = t.canonical_key }
  ELSE IF Truthy(t.isrc)
  THEN { k \in DOMAIN tbl : tbl[k].isrc = t.isrc }
  ELSE { }

\* the loop without its relevance test: every match is kept
RelevantAlways(m, artist_id) == TRUE

\* the test that keeps a match m for the target artist
Relevant(m, artist_id) ==
  LET ids == IF m.artist_ids_csv # << >> THEN SplitComma(m.artist_ids_csv) ELSE << >>
  IN ~ ( StrOf(artist_id) \notin Range(ids) /\ OrElse(m.primary_artist_id, "") # artist_id )

\* the row with a supplied listened flipping what is stored instead of being stored
UpdatedRowToggle(tbl, k, listened, rating) ==
  LET row == IF k \in DOMAIN tbl THEN tbl[k] ELSE [listened |-> FALSE, rating |-> None]
      r1  == IF ~IsNone(listened) THEN [row EXCEPT !.listened = ~row.listened] ELSE row
  IN IF ~IsNone(rating) THEN [r1 EXCEPT !.rating = Some(Val(rating))] ELSE r1

\* the row with both assignments made without their `is not None` tests
UpdatedRowAssignBoth(tbl, k, listened, rating) ==
  [listened |-> OrElse(listened, FALSE), rating |-> rating]

\* the UserTrackState row after the two optional assignments; a new row takes the
\* column defaults for what is not assigned
UpdatedRow(tbl, k, listened, rating) ==
  LET row == IF k \in DOMAIN tbl THEN tbl[k] ELSE [listened |-> FALSE, rating |-> None]
      r1  == IF ~IsNone(listened) THEN [row EXCEPT !.listened = Val(listened)] ELSE row
  IN IF ~IsNone(rating) THEN [r1 EXCEPT !.rating = Some(Val(rating))] ELSE r1

\* the whole of propagate_track_state on the UserTrackState table
propagate_track_state(ust, tbl, track_id, artist_id, listened, rating) ==
  IF track_id \notin DOMAIN tbl THEN ust
  ELSE LET hit == { k \in Matches(tbl, tbl[track_id]) : Relevant(tbl[k], artist_id) }
       IN [k \in DOMAIN ust \cup hit |->
             IF k \in hit THEN UpdatedRow(ust, k, listened, rating) ELSE ust[k]]

\* the call opens its session, loads the track and runs the query
PropBegin(track_id, artist_id, listened, rating) ==
  /\ prop.pc = "idle"
  /\ track_id \in DOMAIN tracks
  /\ tracks[track_id].canonical_key # << >> \/ Truthy(tracks[track_id].isrc)
  /\ prop' = [PropIdle EXCEPT !.pc = "loop", !.track_id = track_id, !.artist_id = artist_id,
                              !.listened = listened, !.rating = rating,
                              !.todo = Matches(tracks, tracks[track_id])]
  /\ UNCHANGED <<artists, releases, links, tracks, uts, sync, nSync, urs, call>>

\* one turn of the loop with the commit inside it
PropStepCommitEach(k) ==
  /\ prop.pc = "loop"
  /\ k \in prop.todo
  /\ LET hit == k \in DOMAIN tracks /\ Relevant(tracks[k], prop.artist_id)
         row == UpdatedRow(uts, k, prop.listened, prop.rating)
     IN /\ prop' = [prop EXCEPT !.todo = @ \ {k}, !.rows = IF hit THEN Put(@, k, row) ELSE @]
        /\ uts' = IF hit THEN Put(uts, k, row) ELSE uts
  /\ UNCHANGED <<artists, releases, links, tracks, sync, nSync, urs, call>>

\* one turn of `for m in matches`: skip, or set the fields and s.add(row)
PropStep(k) ==
  /\ prop.pc = "loop"
  /\ k \in prop.todo
  /\ prop' = [prop EXCEPT
                !.todo = @ \ {k},
                !.rows = IF k \in DOMAIN tracks /\ Relevant(tracks[k], prop.artist_id)
                         THEN Put(@, k, UpdatedRow(uts, k, prop.listened, prop.rating))
                         ELSE @]
  /\ UNCHANGED <<artists, releases, links, tracks, uts, sync, nSync, urs, call>>

\* s.commit() after the loop, then st.rerun()
PropCommit ==
  /\ prop.pc = "loop"
  /\ prop.todo = { }
  /\ uts' = [k \in DOMAIN uts \cup DOMAIN prop.rows |->
               IF k \in DOMAIN prop.rows THEN prop.rows[k] ELSE uts[k]]
  /\ prop' = [prop EXCEPT !.pc = "done"]
  /\ UNCHANGED <<artists, releases, links, tracks, sync, nSync, urs, call>>

\* the call dies inside the loop: `with db() as s` closes the session, nothing is committed
PropAbort ==
  /\ prop.pc = "loop"
  /\ prop' = PropIdle
  /\ UNCHANGED <<artists, releases, links, tracks, uts, sync, nSync, urs, call>>

\* the rerun ends the script run that made the call
PropReturn ==
  /\ prop.pc = "done"
  /\ prop' = PropIdle
  /\ UNCHANGED <<artists, releases, links, tracks, uts, sync, nSync, urs, call>>

\* ------------------------------------------------------------------------
\* the program: an empty database (init_db), one script run at a time
\* ------------------------------------------------------------------------
Init ==
  /\ artists = EmptyTable
  /\ releases = EmptyTable
  /\ links = EmptyTable
  /\ tracks = EmptyTable
  /\ uts = EmptyTable
  /\ urs = EmptyTable
  /\ sync = [s \in Sessions |-> SyncIdle]
  /\ prop = PropIdle
  /\ nSync = 0
  /\ call = NoCall

\* the steps of ingest_artist, at most `limit` syncs started
SyncNext(limit) ==
  \/ \E s \in Sessions, a \in Artists : nSync < limit /\ PropQuiet /\ SyncStart(s, a)
  \/ \E s \in Sessions : SyncReleases(s)
  \/ \E s \in Sessions : SyncHydrate(s)
  \/ \E s \in Sessions : SyncTracks(s)
  \/ \E s \in Sessions : SyncVariants(s)
  \/ \E s \in Sessions : SyncFail(s)

\* the steps of propagate_track_state
PropNext ==
  \/ \E t \in TrackIds, a \in Artists, l \in {None, Some(TRUE), Some(FALSE)},
        r \in {None} \cup { Some(x) : x \in Ratings } :
        SyncQuiet /\ PropBegin(t, a, l, r)
  \/ \E k \in TrackIds : PropStep(k)
  \/ PropCommit
  \/ PropAbort
  \/ PropReturn

Next == SyncNext(MaxRuns) \/ PropNext

Spec == Init /\ [][Next]_vars

\* the catalog side alone: syncs one after the other, no user edit
NextSync == SyncNext(MaxSyncs)
SpecSync == Init /\ [][NextSync]_vars

\* ------------------------------------------------------------------------
\* propagate_track_state over any stored Track and UserTrackState tables
\* ------------------------------------------------------------------------
\* an entry of tracks_out that carries the contributor list ingest_artist reads
TrackEntry(id, title, dur, ids, isrc) ==
  [id |-> Some(id), title |-> Some(title), duration_ms |-> Some(dur), isrc |-> isrc,
   artist_ids |-> ids]

\* the rows ingest_artist can have stored for each track id
StoredTrackRows(k) ==
  CASE k = "T1" -> { TrackRow("R1", TrackEntry("T1", TitleFeelIt, 200000, <<"A1">>, None)) }
    [] k = "T2" -> { TrackRow("R2", TrackEntry("T2", TitleFeelItLower, 200450, <<"A1">>, None)),
                     TrackRow("R2", TrackEntry("T2", TitleFeelItLower, 200450, <<"A2", "A1">>, Some("isrc3"))) }
    [] k = "T3" -> { TrackRow("R3", TrackEntry("T3", TitleFeelIt, 200999, <<"A1">>, Some("isrc3"))),
                     TrackRow("R3", TrackEntry("T3", TitleFeelIt, 200999, << >>, Some("isrc3"))) }

StoredTrackTables ==
  { replace_tracks(replace_tracks(replace_tracks(EmptyTable, "R1", c1), "R2", c2), "R3", c3) :
      c1 \in { {x} : x \in StoredTrackRows("T1") },
      c2 \in { { } } \cup { {x} : x \in StoredTrackRows("T2") },
      c3 \in { { } } \cup { {x} : x \in StoredTrackRows("T3") } }

StoredStateRows == { [listened |-> FALSE, rating |-> None], [listened |-> TRUE, rating |-> Some(6)] }

StoredStateTables ==
  UNION { [ks -> StoredStateRows] : ks \in SUBSET TrackIds }

\* the UserReleaseState tables the release handlers can have left
StoredReleaseStates ==
  { EmptyTable,
    Put(Put(EmptyTable, "R1", [listened |-> TRUE, rating |-> Some(8)]),
        "R3", [listened |-> FALSE, rating |-> None]) }

\* the catalog rows the stored tracks hang from: one sync of A1 over R1, R2, R3
StoredFrame ==
  fetch_artist_releases_df(
    << AlbumItem("R1", TitleMidDeluxe, Some("album"), Some(Date2020May), Some(16)),
       AlbumItem("R2", TitleMid, Some("album"), Some(Date2020), Some(12)),
       AlbumItem("R3", TitleMidRemaster, Some("album"), Some(Date2021), Some(20)) >>)

InitStored ==
  /\ artists = upsert_artist_row(EmptyTable, "A1", "n1", None)
  /\ releases = Step6Releases(Step4Releases(EmptyTable, StoredFrame), StoredFrame, VariantMap(StoredFrame))
  /\ links = Step4Links(EmptyTable, "A1", StoredFrame)
  /\ tracks \in StoredTrackTables
  /\ uts \in StoredStateTables
  /\ urs \in StoredReleaseStates
  /\ sync = [s \in Sessions |-> SyncIdle]
  /\ prop = PropIdle
  /\ nSync = 0
  /\ call = NoCall

NextStored == PropNext
SpecStored == InitStored /\ [][NextStored]_vars

\* ------------------------------------------------------------------------
\* a sync over a database that holds user state
\* ------------------------------------------------------------------------
\* the track table left by an earlier sync whose entries carried their contributors
ResyncTracks ==
  replace_tracks(replace_tracks(replace_tracks(EmptyTable,
    "R1", { TrackRow("R1", TrackEntry("T1", TitleFeelIt, 200000, <<"A1">>, None)) }),
    "R2", { TrackRow("R2", TrackEntry("T2", TitleFeelItLower, 200450, <<"A1">>, None)) }),
    "R3", { TrackRow("R3", TrackEntry("T3", TitleFeelIt, 200999, <<"A1">>, Some("isrc3"))) })

\* the UserTrackState rows left by calls of propagate_track_state on those tracks
ResyncTrackStates ==
  { propagate_track_state(EmptyTable, ResyncTracks, "T1", "A1", Some(TRUE), Some(6)),
    propagate_track_state(
      propagate_track_state(EmptyTable, ResyncTracks, "T1", "A1", Some(TRUE), None),
      ResyncTracks, "T3", "A1", Some(FALSE), Some(8)) }

InitResync ==
  /\ artists = upsert_artist_row(EmptyTable, "A1", "n1", None)
  /\ releases = Step6Releases(Step4Releases(EmptyTable, StoredFrame), StoredFrame, VariantMap(StoredFrame))
  /\ links = Step4Links(EmptyTable, "A1", StoredFrame)
  /\ tracks = ResyncTracks
  /\ uts \in ResyncTrackStates
  /\ urs \in StoredReleaseStates
  /\ sync = [s \in Sessions |-> SyncIdle]
  /\ prop = PropIdle
  /\ nSync = 0
  /\ call = NoCall

NextResync == SyncNext(MaxRuns)
SpecResync == InitResync /\ [][NextResync]_vars

\* ------------------------------------------------------------------------
\* two script runs, each syncing its own artist once, their committed steps interleaved
\* ------------------------------------------------------------------------
ParSessions == {"s1", "s2"}
ArtistOf(s) == IF s = "s1" THEN "A1" ELSE "A2"

InitPar ==
  /\ artists = EmptyTable
  /\ releases = EmptyTable
  /\ links = EmptyTable
  /\ tracks = EmptyTable
  /\ uts = EmptyTable
  /\ urs = EmptyTable
  /\ sync = [s \in ParSessions |-> SyncIdle]
  /\ prop = PropIdle
  /\ nSync = 0
  /\ call = NoCall

NextPar ==
  \/ \E s \in ParSessions : sync[s].pc = "idle" /\ SyncStart(s, ArtistOf(s))
  \/ \E s \in ParSessions : SyncReleases(s)
  \/ \E s \in ParSessions : SyncHydrate(s)
  \/ \E s \in ParSessions : SyncTracks(s)
  \/ \E s \in ParSessions : SyncVariants(s)

SpecPar == InitPar /\ [][NextPar]_vars

\* ------------------------------------------------------------------------
\* the artist page: release handlers, album_display_rating, artist_completion
\* ------------------------------------------------------------------------
\* a float that is the quotient of two naturals, as the fraction in lowest terms
RECURSIVE Gcd(_, _)
Gcd(a, b) == IF b = 0 THEN a ELSE Gcd(b, a % b)
Quotient(a, b) == <<a \div Gcd(a, b), b \div Gcd(a, b)>>
Float(n) == <<n, 1>>

\* sum of the ratings of the UserTrackState rows ks
RECURSIVE SumRatings(_, _)
SumRatings(ust, ks) ==
  IF ks = { } THEN 0
  ELSE LET k == CHOOSE x \in ks : TRUE IN Val(ust[k].rating) + SumRatings(ust, ks \ {k})

\* the average taken over every state row of the release's tracks, a missing rating as 0
album_display_rating_nulls_as_zero(rst, ust, tbl, album_id) ==
  IF album_id \in DOMAIN rst /\ rst[album_id].rating # None
  THEN Some(Float(Val(rst[album_id].rating)))
  ELSE LET all   == { k \in DOMAIN ust : k \in DOMAIN tbl /\ tbl[k].release_id = album_id }
           rated == { k \in all : ust[k].rating # None }
       IN IF all = { } THEN None
          ELSE Some(Quotient(SumRatings(ust, rated), Cardinality(all)))

\* album_display_rating: the override, else the average of the joined non-null
\* track ratings, else None
album_display_rating(rst, ust, tbl, album_id) ==
  IF album_id \in DOMAIN rst /\ rst[album_id].rating # None
  THEN Some(Float(Val(rst[album_id].rating)))
  ELSE LET rated == { k \in DOMAIN ust :
                        /\ k \in DOMAIN tbl /\ tbl[k].release_id = album_id
                        /\ ust[k].rating # None }
       IN IF rated = { } THEN None
          ELSE Some(Quotient(SumRatings(ust, rated), Cardinality(rated)))

\* artist_completion without the filter on is_variant
artist_completion_all_linked(rels, lnk, rst, artist_id, primary_only) ==
  LET release_ids == { r \in DOMAIN rels :
                         /\ <<artist_id, r>> \in DOMAIN lnk
                         /\ primary_only => lnk[<<artist_id, r>>] = "primary" }
      total    == Cardinality(release_ids)
      listened == Cardinality({ r \in release_ids : r \in DOMAIN rst /\ rst[r].listened })
  IN IF total = 0 THEN <<0, 0, Float(0)>>
     ELSE <<listened, total, Quotient(listened * 100, total)>>

\* artist_completion: (listened, total, pct) over the artist's non-variant releases
artist_completion(rels, lnk, rst, artist_id, primary_only) ==
  LET release_ids == { r \in DOMAIN rels :
                         /\ <<artist_id, r>> \in DOMAIN lnk
                         /\ ~rels[r].is_variant
                         /\ primary_only => lnk[<<artist_id, r>>] = "primary" }
      total    == Cardinality(release_ids)
      listened == Cardinality({ r \in release_ids : r \in DOMAIN rst /\ rst[r].listened })
  IN IF total = 0 THEN <<0, 0, Float(0)>>
     ELSE <<listened, total, Quotient(listened * 100, total)>>

\* the release is rendered with its overview tab for some artist: linked, not a
\* variant, and not a single with one track (those render a track card only)
Shown(r) ==
  /\ r \in DOMAIN releases
  /\ ~releases[r].is_variant
  /\ \E a \in DOMAIN artists : <<a, r>> \in DOMAIN links
  /\ ~ ( releases[r].group = Some("single")
         /\ Cardinality({ k \in DOMAIN tracks : tracks[k].release_id = r }) = 1 )

\* the values the rating slider can return
Overrides == {0} \cup Ratings

\* the "listened" checkbox of release r returns `checked`
ReleaseListened(r, checked) ==
  /\ SyncQuiet /\ PropQuiet
  /\ Shown(r)
  /\ urs' = IF checked
            THEN IF r \in DOMAIN urs THEN [urs EXCEPT ![r].listened = TRUE]
                 ELSE Put(urs, r, [listened |-> TRUE, rating |-> None])
            ELSE IF r \in DOMAIN urs THEN [urs EXCEPT ![r].listened = FALSE] ELSE urs
  /\ UNCHANGED <<artists, releases, links, tracks, uts, sync, prop, nSync, call>>

\* the "album rating" slider of release r returns ov_new, not the value it showed
ReleaseRating(r, ov_new) ==
  /\ SyncQuiet /\ PropQuiet
  /\ Shown(r)
  /\ ov_new # (IF r \in DOMAIN urs /\ urs[r].rating # None THEN Val(urs[r].rating) ELSE 0)
  /\ urs' = IF r \in DOMAIN urs THEN [urs EXCEPT ![r].rating = Some(ov_new)]
            ELSE Put(urs, r, [listened |-> FALSE, rating |-> Some(ov_new)])
  /\ UNCHANGED <<artists, releases, links, tracks, uts, sync, prop, nSync, call>>

\* the rating badge of release r is computed
DisplayRating(r) ==
  /\ Shown(r)
  /\ call' = [fn |-> "album_display_rating", args |-> <<r>>,
              out |-> album_display_rating(urs, uts, tracks, r)]
  /\ UNCHANGED <<artists, releases, links, tracks, uts, urs, sync, prop, nSync>>

\* a completion meter of artist a is computed
Completion(a, primary_only) ==
  /\ a \in DOMAIN artists
  /\ call' = [fn |-> "artist_completion", args |-> <<a, primary_only>>,
              out |-> artist_completion(releases, links, urs, a, primary_only)]
  /\ UNCHANGED <<artists, releases, links, tracks, uts, urs, sync, prop, nSync>>

\* sp.album answers with two tracks on R1
PageAlbums(r) ==
  CASE r = "R1" -> [upc |-> Some("upc1"),
                    items |-> << SpTrack(Some("T1"), Some(TitleFeelIt), Some(200000), <<"A1">>, None),
                                 SpTrack(Some("T4"), Some(TitleMid), Some(180000), <<"A1">>, None) >>]
    [] r = "R2" -> [upc |-> None,
                    items |-> << SpTrack(Some("T2"), Some(TitleFeelItLower), Some(200450), <<"A1">>, None) >>]
    [] r = "R3" -> [upc |-> None,
                    items |-> << SpTrack(Some("T3"), Some(TitleFeelIt), Some(201000), <<"A2", "A1">>, Some("isrc3")) >>]

\* one whole sync of artist a whose listing is `listing`
PageSync(db, a, listing) ==
  LET df == fetch_artist_releases_df(listing)
  IN ingest_artist(db, a, [name |-> a, image |-> None], df, [i \in DOMAIN df |-> PageAlbums(df[i].id)])

\* the catalogs the page is opened on: A2 synced, then A1 synced once (R2 a variant
\* of R1) or twice with different listings (R1, R2 and R3 all canonical)
PageCatalogs ==
  LET db0 == PageSync([artists |-> EmptyTable, releases |-> EmptyTable, links |-> EmptyTable,
                       tracks |-> EmptyTable], "A2",
                      << AlbumItem("R2", TitleMid, Some("appears_on"), Some(Date2020), Some(12)),
                         AlbumItem("R3", TitleMidRemaster, Some("appears_on"), Some(Date2020), Some(20)) >>)
      r1  == AlbumItem("R1", TitleMidDeluxe, Some("album"), Some(Date2020May), Some(16))
      r2  == AlbumItem("R2", TitleMid, Some("album"), Some(Date2020), Some(12))
      r3  == AlbumItem("R3", TitleMidRemaster, Some("album"), Some(Date2021), Some(20))
  IN { PageSync(db0, "A1", <<r1, r2, r3>>),
       PageSync(PageSync(db0, "A1", <<r2, r3>>), "A1", <<r1, r3>>) }

\* the UserTrackState tables the page is opened on
PageTrackStates ==
  { EmptyTable,
    Put(EmptyTable, "T3", [listened |-> TRUE, rating |-> None]),
    Put(Put(EmptyTable, "T1", [listened |-> TRUE, rating |-> Some(6)]),
        "T4", [listened |-> TRUE, rating |-> Some(8)]),
    Put(Put(Put(EmptyTable, "T1", [listened |-> TRUE, rating |-> Some(6)]),
            "T4", [listened |-> FALSE, rating |-> None]),
        "T2", [listened |-> TRUE, rating |-> Some(8)]) }

InitPage ==
  /\ \E db \in PageCatalogs :
       /\ artists = db.artists
       /\ releases = db.releases
       /\ links = db.links
       /\ tracks = db.tracks
  /\ uts \in PageTrackStates
  /\ urs = EmptyTable
  /\ sync = [s \in Sessions |-> SyncIdle]
  /\ prop = PropIdle
  /\ nSync = 0
  /\ call = NoCall

NextPage ==
  \/ \E r \in ReleaseIds, checked \in BOOLEAN : ReleaseListened(r, checked)
  \/ \E r \in ReleaseIds, ov_new \in Overrides : ReleaseRating(r, ov_new)
  \/ \E r \in ReleaseIds : DisplayRating(r)
  \/ \E a \in Artists, primary_only \in BOOLEAN : Completion(a, primary_only)

SpecPage == InitPage /\ [][NextPage]_vars

\* ------------------------------------------------------------------------
\* canonical_track_key called on two argument triples
\* ------------------------------------------------------------------------
KeyTitles == { None, Some(TitleFeelIt), Some(TitleFeelItLower) }
KeyDurations == { None, Some(200000), Some(200450), Some(200999), Some(201000) }
KeyIdLists ==
  { None, Some(<< >>), Some(<<"A1">>), Some(<<"A1", "A2">>), Some(<<"A2", "A1">>),
    Some(<<"A1", "A2", "A3">>), Some(<<"A3", "A1", "A2">>), Some(<<"A2", "A3", "A1">>),
    Some(<<"A3", "A2", "A1">>) }

\* the argument triples, the key not computed yet
KeyArgs ==
  { [title |-> t, duration_ms |-> d, artist_ids |-> ids, key |-> None] :
      t \in KeyTitles, d \in KeyDurations, ids \in KeyIdLists }

InitKey ==
  /\ artists = EmptyTable
  /\ releases = EmptyTable
  /\ links = EmptyTable
  /\ tracks = EmptyTable
  /\ uts = EmptyTable
  /\ urs = EmptyTable
  /\ sync = [s \in Sessions |-> SyncIdle]
  /\ prop = PropIdle
  /\ nSync = 0
  /\ call \in { <<x, y>> : x \in KeyArgs, y \in KeyArgs }

\* the i-th call returns
KeyCall(i) ==
  /\ i \in DOMAIN call
  /\ call[i].key = None
  /\ call' = [call EXCEPT ![i].key =
                Some(canonical_track_key(call[i].title, call[i].duration_ms, call[i].artist_ids))]
  /\ UNCHANGED <<artists, releases, links, tracks, uts, urs, sync, prop, nSync>>

NextKey == \E i \in 1..2 : KeyCall(i)
SpecKey == InitKey /\ [][NextKey]_vars

\* ------------------------------------------------------------------------
\* normalize_title called on a title and then on its own result
\* ------------------------------------------------------------------------
MaxTitleLen == 5       \* length of the titles enumerated over TitleChars

\* the letters of the variant word 'edit', one in upper case, and the space
TitleChars == {"E", "d", "i", "t", " "}

\* every string over TitleChars of length n
RECURSIVE TitlesOfLen(_)
TitlesOfLen(n) ==
  IF n = 0 THEN { << >> }
  ELSE { <<c>> \o t : c \in TitleChars, t \in TitlesOfLen(n - 1) }

\* titles with a variant word at the start, in the middle, at the end, inside
\* brackets, inside another word, and next to '_' (a word character)
NormTitles ==
  UNION { TitlesOfLen(n) : n \in 0..MaxTitleLen } \cup
  { TitleMidDeluxe, TitleMid, TitleMidRemaster, TitleFeelIt, TitleFeelItLower,
    <<"F","e","e","l"," ","(","D","e","l","u","x","e",")"," ","I","t">>,
    <<"e","d","(","E","D","I","T",")","i","t">>,
    <<"e","d","e","d","i","t","i","t">>,
    <<"r","e","m","a","s","t","e","r"," ","R","e","m","a","s","t","e","r","e","d">>,
    <<"b","o","n","u","s","_","c","l","e","a","n">>,
    <<"{","c","l","e","a","n","}","\t","[","b","o","n","u","s","]","\n","x">>,
    <<"E","d","i","t">>,
    <<" ","a"," "," ","e","d","i","t"," "," ","b"," ">> }

InitNorm ==
  /\ artists = EmptyTable
  /\ releases = EmptyTable
  /\ links = EmptyTable
  /\ tracks = EmptyTable
  /\ uts = EmptyTable
  /\ urs = EmptyTable
  /\ sync = [s \in Sessions |-> SyncIdle]
  /\ prop = PropIdle
  /\ nSync = 0
  /\ call \in { << [title |-> x, out |-> None] >> : x \in NormTitles }

\* the call in progress returns
NormReturn ==
  /\ call # NoCall
  /\ call[Len(call)].out = None
  /\ call' = [call EXCEPT ![Len(call)].out = Some(normalize_title(call[Len(call)].title))]
  /\ UNCHANGED <<artists, releases, links, tracks, uts, urs, sync, prop, nSync>>

\* normalize_title is called on the result of the first call
NormAgain ==
  /\ Len(call) = 1
  /\ call[1].out # None
  /\ call' = Append(call, [title |-> Val(call[1].out), out |-> None])
  /\ UNCHANGED <<artists, releases, links, tracks, uts, urs, sync, prop, nSync>>

NextNorm == NormReturn \/ NormAgain
SpecNorm == InitNorm /\ [][NextNorm]_vars

\* ------------------------------------------------------------------------
\* properties of the catalog side (SpecSync)
\* ------------------------------------------------------------------------
\* a session whose ingest_artist has returned after step 6, with what it fetched
Completed(s) == sync[s].pc = "done" /\ sync[s].df # << >>

\* the grouping key as the triple it is made of
GroupingKey(row) ==
  << normalize_title(row.title),
     SubSeq(OrElse(row.release_date, << >>), 1, Min(4, Len(OrElse(row.release_date, << >>)))),
     row.group >>
\* the fetched ids that share row's grouping key
SameKeyIds(df, row) == { x.id : x \in { y \in Range(df) : GroupingKey(y) = GroupingKey(row) } }

\* C1: after a completed sync, every set of fetched releases sharing a grouping key
\* holds exactly one release with is_variant = false, every other member is a
\* variant whose variant_of is that release, and a group of one has no variant.
C1_OneCanonicalPerGroup ==
  \A s \in Sessions : Completed(s) =>
    \A row \in Range(sync[s].df) :
      LET ids   == SameKeyIds(sync[s].df, row)
          canon == { r \in ids : ~releases[r].is_variant }
      IN /\ ids \subseteq DOMAIN releases
         /\ Cardinality(canon) = 1
         /\ \A r \in ids \ canon :
              releases[r].is_variant /\ \A c \in canon : releases[r].variant_of = Some(c)
         /\ \A c \in canon : releases[c].variant_of = None

\* a completed sync whose fetched set holds a group of two and a release alone in its group
C1_Witness ==
  \E s \in Sessions : Completed(s) /\
    \E x, y \in Range(sync[s].df) :
      /\ Cardinality(SameKeyIds(sync[s].df, x)) = 2
      /\ Cardinality(SameKeyIds(sync[s].df, y)) = 1
      /\ \E r \in SameKeyIds(sync[s].df, x) : releases[r].is_variant
      /\ ~releases[y.id].is_variant

\* C2: in every state left by completed syncs, a stored release with is_variant =
\* true has a variant_of naming a stored release that is not itself a variant.
C2_NoVariantOfVariant ==
  SyncQuiet =>
    \A r \in DOMAIN releases : releases[r].is_variant =>
      /\ releases[r].variant_of # None
      /\ Val(releases[r].variant_of) \in DOMAIN releases
      /\ ~releases[Val(releases[r].variant_of)].is_variant

\* the order the canonical release is first under: 'album' before any other
\* classification, then more tracks first (a missing count is 0), then the smaller id
ClassRank(row)  == IF row.group = Some("album") THEN 0 ELSE 1
TrackCount(row) == IF row.total_tracks = None THEN 0 ELSE Val(row.total_tracks)
RanksAbove(x, y) ==
  \/ ClassRank(x) < ClassRank(y)
  \/ ClassRank(x) = ClassRank(y) /\ TrackCount(x) > TrackCount(y)
  \/ ClassRank(x) = ClassRank(y) /\ TrackCount(x) = TrackCount(y) /\ IdLess(x.id, y.id)

\* C3: the release left canonical in a group ranks above every other member of
\* the group: classification rank ascending, track count descending, id ascending.
C3_CanonicalIsFirst ==
  \A s \in Sessions : Completed(s) =>
    \A x, y \in Range(sync[s].df) :
      ( /\ x.id # y.id
        /\ GroupingKey(x) = GroupingKey(y)
        /\ ~releases[x.id].is_variant ) => RanksAbove(x, y)

\* a completed sync where the canonical release won on track count against a
\* member with a smaller id, and a completed sync decided by the id alone
C3_Witness ==
  \E s \in Sessions : Completed(s) /\
    \E x, y \in Range(sync[s].df) :
      /\ x.id # y.id /\ GroupingKey(x) = GroupingKey(y)
      /\ ~releases[x.id].is_variant /\ releases[y.id].variant_of = Some(x.id)
      /\ TrackCount(x) > TrackCount(y) /\ IdLess(y.id, x.id)

\* what the fetched set alone says about a fetched release: the member of its
\* group that ranks above all others
FirstOfGroup(df, row) ==
  CHOOSE x \in Range(df) :
    /\ GroupingKey(x) = GroupingKey(row)
    /\ \A y \in Range(df) : (y.id # x.id /\ GroupingKey(y) = GroupingKey(row)) => RanksAbove(x, y)

\* C4: after a completed sync the is_variant / variant_of of every fetched release
\* is what the fetched set alone gives, whatever was stored before: canonical with
\* variant_of null when it ranks first in its group, else variant of the one that does.
C4_FlagsFromFetchedSetAlone ==
  \A s \in Sessions : Completed(s) =>
    \A row \in Range(sync[s].df) :
      LET first == FirstOfGroup(sync[s].df, row).id
      IN /\ releases[row.id].is_variant = (first # row.id)
         /\ releases[row.id].variant_of = (IF first = row.id THEN None ELSE Some(first))

\* step 6 is about to run on a release stored as a variant of a release that was
\* not fetched this time, and which now ranks first in its group
C4_Witness ==
  \E s \in Sessions : sync[s].pc = "s6" /\
    \E row \in Range(sync[s].df) :
      /\ releases[row.id].is_variant
      /\ releases[row.id].variant_of # None
      /\ Val(releases[row.id].variant_of) \notin { x.id : x \in Range(sync[s].df) }
      /\ FirstOfGroup(sync[s].df, row).id = row.id

\* the four catalog tables as one value
Catalog == [artists |-> artists, releases |-> releases, links |-> links, tracks |-> tracks]

\* C5: sync is idempotent: after a completed sync, running it once more against
\* the same answers of the source leaves the Artist, Release, ArtistRelease and
\* Track rows as they are.
C5_SyncIdempotent ==
  \A s \in Sessions : sync[s].pc = "done" =>
    ingest_artist(Catalog, sync[s].artist_id, artists[sync[s].artist_id],
                  sync[s].df, sync[s].albs) = Catalog

\* a second sync has completed over stored rows: tracks were replaced and a
\* release that was stored before is now a variant
C5_Witness ==
  \E s \in Sessions : Completed(s) /\ nSync = 2 /\ tracks # EmptyTable /\
    \E r \in DOMAIN sync[s].variant_of : releases[r].is_variant

\* ------------------------------------------------------------------------
\* properties of propagate_track_state (SpecStored) and end to end (Spec)
\* ------------------------------------------------------------------------
\* artist a is in the track's contributor-id list or is its primary contributor
EligibleFor(row, a) ==
  \/ \E i \in DOMAIN SplitComma(row.artist_ids_csv) : SplitComma(row.artist_ids_csv)[i] = StrOf(a)
  \/ row.primary_artist_id = Some(a)

\* the stored tracks of the target's duplicate group that are eligible for the caller
EligibleGroup ==
  { k \in DOMAIN tracks :
      /\ prop.track_id \in DOMAIN tracks
      /\ tracks[k].canonical_key = tracks[prop.track_id].canonical_key
      /\ EligibleFor(tracks[k], prop.artist_id) }

\* the table t holds, for track k, the values the call in progress supplies
CarriesCall(t, k) ==
  /\ k \in DOMAIN t
  /\ prop.listened # None => t[k].listened = Val(prop.listened)
  /\ prop.rating # None => t[k].rating = prop.rating

\* C6: after apply_track_state(T, A, listened, rating) commits, every stored track
\* with T's canonical key that is eligible for A has a UserTrackState row with the
\* supplied listened and the supplied rating.
C6_AllEligibleUpdated ==
  prop.pc = "done" => \A k \in EligibleGroup : CarriesCall(uts, k)

\* a call that set listened on a duplicate group of two eligible tracks, the target
\* and another one
C6_Witness ==
  /\ prop.pc = "done"
  /\ prop.listened = Some(TRUE)
  /\ \E k \in EligibleGroup : k # prop.track_id /\ uts[k].listened
  /\ Cardinality(EligibleGroup) = 2

\* the tracks the source reported to the sync of session s, with their release
Reported(s) ==
  UNION { { [release |-> sync[s].df[i].id, item |-> sync[s].albs[i].items[j]] :
              j \in DOMAIN sync[s].albs[i].items } : i \in DOMAIN sync[s].albs }

\* C7: when the source reports tracks T1 and T2 on two releases of the synced
\* artist, with titles that normalize equally, durations in the same second and
\* the contributor list [artist], then after the sync a call
\* apply_track_state(T1, artist, listened = true) leaves listened = true on both.
C7_EndToEndPropagation ==
  \A s \in Sessions : \A x, y \in Reported(s) :
    ( /\ Completed(s)
      /\ x.release # y.release
      /\ x.item.id # None /\ y.item.id # None
      /\ normalize_title(Val(x.item.name)) = normalize_title(Val(y.item.name))
      /\ Val(x.item.duration_ms) \div 1000 = Val(y.item.duration_ms) \div 1000
      /\ x.item.artists = <<sync[s].artist_id>> /\ y.item.artists = <<sync[s].artist_id>>
      /\ prop.pc = "done"
      /\ prop.track_id = Val(x.item.id) /\ prop.artist_id = sync[s].artist_id
      /\ prop.listened = Some(TRUE) )
    => /\ Val(x.item.id) \in DOMAIN uts /\ uts[Val(x.item.id)].listened
       /\ Val(y.item.id) \in DOMAIN uts /\ uts[Val(y.item.id)].listened

\* C8: apply_track_state is idempotent: once a call has committed, the same call
\* made again leaves the UserTrackState table as it is.
C8_ApplyIdempotent ==
  prop.pc = "done" =>
    propagate_track_state(uts, tracks, prop.track_id, prop.artist_id,
                          prop.listened, prop.rating) = uts

\* a call that stored listened = false and rating 8 over rows that held other values
C8_Witness ==
  /\ prop.pc = "done"
  /\ prop.listened = Some(FALSE) /\ prop.rating = Some(8)
  /\ Cardinality(DOMAIN prop.rows) >= 2
  /\ \A k \in DOMAIN prop.rows : uts[k] = [listened |-> FALSE, rating |-> Some(8)]

\* C9: a call that supplies only one of listened and rating leaves the other as it
\* was on every row that existed, and a row the call creates has the default of
\* the field not supplied (listened = false, rating absent).
C9_OtherFieldUntouched ==
  [][ (prop.pc = "loop" /\ prop'.pc = "done") =>
        \A k \in DOMAIN uts' :
          /\ k \in DOMAIN uts =>
               /\ prop.rating = None => uts'[k].rating = uts[k].rating
               /\ prop.listened = None => uts'[k].listened = uts[k].listened
          /\ k \notin DOMAIN uts =>
               /\ prop.rating = None => uts'[k].rating = None
               /\ prop.listened = None => uts'[k].listened = FALSE ]_vars

\* a call with listened only has committed: a row it wrote keeps its rating 6 and
\* another row it wrote has no rating
C9_Witness ==
  /\ prop.pc = "done"
  /\ prop.listened = Some(TRUE) /\ prop.rating = None
  /\ \E k1, k2 \in DOMAIN prop.rows :
       /\ uts[k1] = [listened |-> TRUE, rating |-> Some(6)]
       /\ uts[k2] = [listened |-> TRUE, rating |-> None]

\* C10: the group update is atomic: the committed UserTrackState table changes
\* only in the one step that commits the call, and after that step every eligible
\* track of the group carries the supplied values; a call that dies changes nothing.
C10_GroupUpdateAtomic ==
  [][ uts' # uts =>
        /\ prop.pc = "loop" /\ prop'.pc = "done"
        /\ \A k \in EligibleGroup : CarriesCall(uts', k) ]_vars

\* one commit has written the rows of a duplicate group of three
C10_Witness ==
  /\ prop.pc = "done"
  /\ prop.rating = Some(8)
  /\ Cardinality(DOMAIN prop.rows) = 3
  /\ \A k \in DOMAIN prop.rows : k \in DOMAIN uts /\ uts[k].rating = Some(8)

\* C11: apply_track_state(T, A, ...) leaves unchanged the UserTrackState of every
\* track outside T's duplicate group and of every track A is not eligible for, also
\* when that track has T's canonical key; it leaves every UserReleaseState row unchanged.
C11_OthersUntouched ==
  [][ /\ urs' = urs
      /\ \A k \in TrackIds :
           k \notin EligibleGroup =>
             /\ (k \in DOMAIN uts') = (k \in DOMAIN uts)
             /\ k \in DOMAIN uts => uts'[k] = uts[k] ]_vars

\* a call for an artist who is on none of the tracks of the target's group of two
\* or more has committed: nothing was written, release states exist
C11_Witness ==
  /\ prop.pc = "done"
  /\ prop.listened = Some(TRUE)
  /\ prop.rows = EmptyTable
  /\ Cardinality({ k \in DOMAIN tracks :
                     tracks[k].canonical_key = tracks[prop.track_id].canonical_key }) >= 2
  /\ DOMAIN uts # { } /\ \A k \in DOMAIN uts : ~uts[k].listened
  /\ urs # EmptyTable

BothKeys == call[1].key # None /\ call[2].key # None
SameTitleAndIds == call[1].title = call[2].title /\ call[1].artist_ids = call[2].artist_ids
Millis(i) == OrElse(call[i].duration_ms, 0)

\* C13 as stated: for every title, contributor list and durations d1, d2 with
\* |d1 - d2| < 1000 the two keys are equal.
C13_Under1000msIgnored ==
  ( /\ BothKeys /\ SameTitleAndIds
    /\ Millis(1) - Millis(2) < 1000 /\ Millis(2) - Millis(1) < 1000 )
  => call[1].key = call[2].key

\* C13: for every title, contributor list and durations d1, d2 in the same whole
\* second (d1 div 1000 = d2 div 1000) the two keys are equal.
C13_SameSecondSameKey ==
  ( /\ BothKeys /\ SameTitleAndIds
    /\ Millis(1) \div 1000 = Millis(2) \div 1000 )
  => call[1].key = call[2].key

\* two keys computed for durations 200000 and 200450 of one title and list
C13_Witness ==
  /\ BothKeys /\ SameTitleAndIds
  /\ call[1].duration_ms = Some(200000) /\ call[2].duration_ms = Some(200450)
  /\ call[1].artist_ids = Some(<<"A1">>)

\* the contributor lists of the two calls are permutations of each other
PermutedIds ==
  LET a == OrElse(call[1].artist_ids, << >>)
      b == OrElse(call[2].artist_ids, << >>)
  IN /\ Len(a) = Len(b)
     /\ \E p \in [DOMAIN a -> DOMAIN a] :
          /\ \A i, j \in DOMAIN a : i # j => p[i] # p[j]
          /\ \A i \in DOMAIN a : b[i] = a[p[i]]

\* C14: for every title and duration, the keys computed from two orderings of the
\* same contributor ids are the same string.
C14_IdOrderIgnored ==
  ( /\ BothKeys
    /\ call[1].title = call[2].title /\ call[1].duration_ms = call[2].duration_ms
    /\ PermutedIds )
  => call[1].key = call[2].key

\* two keys computed for two different orderings of three contributor ids
C14_Witness ==
  /\ BothKeys
  /\ call[1].title = call[2].title /\ call[1].duration_ms = call[2].duration_ms
  /\ call[1].artist_ids = Some(<<"A3", "A1", "A2">>)
  /\ call[2].artist_ids = Some(<<"A2", "A3", "A1">>)
  /\ call[1].key = call[2].key

\* ------------------------------------------------------------------------
\* properties of a sync over stored user state and of a failing sync
\* ------------------------------------------------------------------------
\* C15: no step of a sync creates, modifies or deletes a UserReleaseState or
\* UserTrackState row; a track or release still reported keeps its listened/rating
\* state, also when its track rows were deleted and inserted again.
C15_UserStateSurvivesSync ==
  [][ uts' = uts /\ urs' = urs ]_vars

\* a sync has completed that replaced the rows of track T1, which had user state,
\* and rewrote release R1, which had user state
C15_Witness ==
  \E s \in Sessions :
    /\ Completed(s)
    /\ "T1" \in DOMAIN tracks /\ tracks["T1"].artist_ids_csv = << >>
    /\ "T1" \in DOMAIN uts /\ uts["T1"].listened
    /\ "R1" \in DOMAIN urs /\ urs["R1"].rating = Some(8)
    /\ \E i \in DOMAIN sync[s].df : sync[s].df[i].id = "R1"

\* the session's step is a fetch of step 2 or step 5 that returns or raises
FetchStep(s) ==
  \/ sync[s].pc = "s2" /\ sync'[s].pc = "failed"
  \/ sync[s].pc = "s5" /\ sync'[s].pc \in {"s5", "failed"}

\* C16: when a fetch fails during step k the sync aborts and the persisted state is
\* the one committed at the end of step k-1: step 1 (and, for a failure in step 5,
\* step 4) stays applied, and nothing of step k is persisted, whatever number of
\* releases step 5 had already hydrated.
C16_FailureKeepsCommittedSteps ==
  [][ \A s \in DOMAIN sync :
        FetchStep(s) =>
          /\ artists' = artists /\ releases' = releases /\ links' = links /\ tracks' = tracks
          /\ sync'[s].pc = "failed" =>
               /\ sync[s].artist_id \in DOMAIN artists'
               /\ \A i \in DOMAIN sync[s].df :
                    /\ sync[s].df[i].id \in DOMAIN releases'
                    /\ releases'[sync[s].df[i].id].title = sync[s].df[i].title
                    /\ <<sync[s].artist_id, sync[s].df[i].id>> \in DOMAIN links' ]_vars

\* a sync failed in step 5 after hydrating the first of its two or more releases,
\* whose answer carried a UPC and a track: neither is stored
C16_Witness ==
  \E s \in DOMAIN sync :
    /\ sync[s].pc = "failed"
    /\ Len(sync[s].df) >= 2 /\ Len(sync[s].albs) >= 1
    /\ sync[s].albs[1].upc # None /\ sync[s].albs[1].items # << >>
    /\ releases[sync[s].df[1].id].upc = None
    /\ tracks = EmptyTable

\* ------------------------------------------------------------------------
\* properties of two interleaved syncs (SpecPar)
\* ------------------------------------------------------------------------
\* the database after the whole sync of session s run on db with the answers s got
SyncOf(db, s) ==
  ingest_artist(db, sync[s].artist_id, artists[sync[s].artist_id], sync[s].df, sync[s].albs)

EmptyCatalog ==
  [artists |-> EmptyTable, releases |-> EmptyTable, links |-> EmptyTable, tracks |-> EmptyTable]

\* the source gave both sessions the same album for every release both fetched
SameAlbumAnswers ==
  \A i \in DOMAIN sync["s1"].albs, j \in DOMAIN sync["s2"].albs :
    sync["s1"].df[i].id = sync["s2"].df[j].id => sync["s1"].albs[i] = sync["s2"].albs[j]

\* C17: syncs of two different artists are independent: when both have completed,
\* whatever the interleaving of their committed steps, the persisted catalog is the
\* one left by running the two syncs one after the other, in one order or the other.
C17_ParallelSyncsIndependent ==
  (sync["s1"].pc = "done" /\ sync["s2"].pc = "done" /\ SameAlbumAnswers)
  => \/ Catalog = SyncOf(SyncOf(EmptyCatalog, "s1"), "s2")
     \/ Catalog = SyncOf(SyncOf(EmptyCatalog, "s2"), "s1")

\* ------------------------------------------------------------------------
\* properties of the artist page (SpecPage)
\* ------------------------------------------------------------------------
\* the release-level state of r, a missing row read as the defaults
ReleaseState(r) == IF r \in DOMAIN urs THEN urs[r] ELSE [listened |-> FALSE, rating |-> None]

\* C18: a user edit of listened or rating on a release reaches every release of
\* its duplicate group: the canonical release and every release whose variant_of
\* names it have the same release-level listened and rating.
C18_ReleaseEditReachesGroup ==
  \A r, v \in DOMAIN releases :
    releases[v].variant_of = Some(r) => ReleaseState(v) = ReleaseState(r)

\* the call that has just returned, if it is a call of fn
Returned(fn) == call' # call /\ call'.fn = fn

\* the rated tracks stored under release r
RatedTracks(r) ==
  { k \in DOMAIN tracks : tracks[k].release_id = r /\ k \in DOMAIN uts /\ uts[k].rating # None }

\* C19: display_rating(release) is the override when one is set, whatever the
\* track ratings; else the arithmetic mean of the non-null ratings of the tracks
\* stored under the release; else "no rating", which is not 0; nothing stored changes.
C19_DisplayRating ==
  [][ Returned("album_display_rating") =>
        LET r   == call'.args[1]
            out == call'.out
        IN /\ <<artists, releases, links, tracks, uts, urs>>' = <<artists, releases, links, tracks, uts, urs>>
           /\ IF r \in DOMAIN urs /\ urs[r].rating # None
              THEN out = Some(<<Val(urs[r].rating), 1>>)
              ELSE IF RatedTracks(r) = { }
              THEN out = None /\ out # Some(<<0, 1>>)
              ELSE /\ out # None
                   /\ Val(out)[1] * Cardinality(RatedTracks(r))
                        = Val(out)[2] * SumRatings(uts, RatedTracks(r)) ]_vars

\* the badge of a release without override whose tracks are rated 6 and 8 shows 7
C19_Witness ==
  /\ call # NoCall /\ call.fn = "album_display_rating"
  /\ call.args = <<"R1">> /\ call.out = Some(<<7, 1>>)
  /\ "R1" \notin DOMAIN urs
  /\ uts["T1"].rating = Some(6) /\ uts["T4"].rating = Some(8)

\* the releases counted for artist a
Counted(a, primary_only) ==
  { r \in DOMAIN releases :
      /\ <<a, r>> \in DOMAIN links
      /\ releases[r].is_variant = FALSE
      /\ primary_only => links[<<a, r>>] = "primary" }

\* C20: the completion query returns (listened, total): total the number of stored
\* releases linked to the artist that are not variants (links of role 'primary' only
\* when primary-only is asked), listened the number of those whose release state
\* has listened = true; listened <= total; total = 0 gives (0, 0, 0).
C20_Completion ==
  [][ Returned("artist_completion") =>
        LET a   == call'.args[1]
            po  == call'.args[2]
            out == call'.out
        IN /\ out[2] = Cardinality(Counted(a, po))
           /\ out[1] = Cardinality({ r \in Counted(a, po) : ReleaseState(r).listened })
           /\ out[1] <= out[2]
           /\ out[2] = 0 => out = <<0, 0, <<0, 1>>>> ]_vars

\* three canonical primary releases, two of them listened: (2, 3)
C20_Witness ==
  /\ call # NoCall /\ call.fn = "artist_completion"
  /\ call.args = <<"A1", TRUE>>
  /\ call.out[1] = 2 /\ call.out[2] = 3
  /\ Cardinality({ r \in DOMAIN urs : urs[r].listened }) = 2

\* ------------------------------------------------------------------------
\* properties of the rows a sync stores (SpecSync)
\* ------------------------------------------------------------------------
\* the ArtistRelease rows stored for the pair (a, r)
LinksOf(a, r) == { k \in DOMAIN links : k[1] = a /\ k[2] = r }

\* C21: after a completed sync there is, for every fetched release, exactly one
\* ArtistRelease link (artist, release); its role is 'appears_on' iff the fetched
\* classification of the release is 'appears_on', otherwise 'primary', whatever
\* role an earlier sync stored for the link.
C21_LinkRoleFollowsFetch ==
  \A s \in Sessions : Completed(s) =>
    \A row \in Range(sync[s].df) :
      /\ Cardinality(LinksOf(sync[s].artist_id, row.id)) = 1
      /\ (links[<<sync[s].artist_id, row.id>>] = "appears_on") = (row.group = Some("appears_on"))
      /\ (links[<<sync[s].artist_id, row.id>>] = "primary") = (row.group # Some("appears_on"))

\* a second sync has completed for an artist with two links: a release fetched as
\* 'album' linked as primary, beside one linked as a guest appearance
C21_Witness ==
  \E s \in Sessions :
    /\ Completed(s) /\ nSync = 2
    /\ \E row \in Range(sync[s].df) :
         row.group = Some("album") /\ links[<<sync[s].artist_id, row.id>>] = "primary"
    /\ \E k \in DOMAIN links : k[1] = sync[s].artist_id /\ links[k] = "appears_on"

\* ------------------------------------------------------------------------
\* properties of normalize_title (SpecNorm)
\* ------------------------------------------------------------------------
\* C22: title normalization is idempotent: normalize(normalize(x)) = normalize(x)
\* for every title x, the empty title included, which yields the empty key.
C22_NormalizeIdempotent ==
  /\ \A i, j \in DOMAIN call :
       (call[i].out # None /\ call[j].out # None /\ call[j].title = Val(call[i].out))
         => call[j].out = call[i].out
  /\ \A i \in DOMAIN call :
       (call[i].title = << >> /\ call[i].out # None) => call[i].out = Some(<< >>)

\* both calls have returned for a title that holds a variant word between two
\* other words and brackets, and whose key differs from the title
C22_Witness ==
  /\ Len(call) = 2
  /\ call[1].title = <<"F","e","e","l"," ","(","D","e","l","u","x","e",")"," ","I","t">>
  /\ call[1].out = Some(TitleFeelItLower)
  /\ call[2].out = Some(TitleFeelItLower)

\* the stored releases linked to artist a
LinkedTo(a) == { r \in DOMAIN releases : <<a, r>> \in DOMAIN links }

\* C23: after every completed sync, whatever was stored before it, no two stored
\* non-variant releases linked to the synced artist share a grouping key, releases
\* stored by an earlier sync that the source no longer returns included.
C23_StoredGroupingInvariant ==
  \A s \in Sessions : Completed(s) =>
    \A x, y \in LinkedTo(sync[s].artist_id) :
      (x # y /\ ~releases[x].is_variant /\ ~releases[y].is_variant)
        => GroupingKey(releases[x]) # GroupingKey(releases[y])

\* the contributor ids of a reported track as the text ','.join stores
IdsCsv(ids) == Join([i \in DOMAIN ids |-> StrOf(ids[i])], <<",">>)

\* C24: after a completed sync every track stored for a fetched release carries the
\* ordered contributor ids the source reports for it, its primary_artist_id is the
\* first of them (null only when the source lists none), and its canonical_key is
\* computed from those contributors.
C24_ContributorsStored ==
  \A s \in Sessions : Completed(s) =>
    \A x \in Reported(s) : x.item.id # None =>
      /\ Val(x.item.id) \in DOMAIN tracks
      /\ tracks[Val(x.item.id)].artist_ids_csv = IdsCsv(x.item.artists)
      /\ tracks[Val(x.item.id)].primary_artist_id =
           (IF x.item.artists = << >> THEN None ELSE Some(x.item.artists[1]))
      /\ tracks[Val(x.item.id)].canonical_key =
           canonical_track_key(x.item.name, x.item.duration_ms, Some(x.item.artists))

\* the step is session s returning from (or raising in) a call to the catalog source:
\* fetch_artist of step 1, fetch_artist_releases_df of step 2, hydrate_album of step 5
Fetching(s) ==
  /\ sync'[s] # sync[s]
  /\ \/ sync[s].pc \in {"idle", "done", "failed", "s2"}
     \/ sync[s].pc = "s5" /\ sync'[s].pc \in {"s5", "failed"}

\* C25: no storage transaction is open while a call to the catalog source is in
\* flight: every fetch of a step completes before the transaction that writes its
\* results begins; in step 5 no hydrate call is issued while the session holds
\* uncommitted writes for an earlier release.
C25_NoFetchWithPendingWrites ==
  [][ \A s \in DOMAIN sync : Fetching(s) => sync[s].pending = { } ]_vars

\* the ids of the track rows stored for release r
StoredTracksOf(r) == { k \in DOMAIN tracks : tracks[k].release_id = r }
\* the ids carried by the entries the source returned in answer alb
ReturnedIds(alb) == { Val(alb.items[j].id) : j \in { i \in DOMAIN alb.items : alb.items[i].id # None } }

\* C26: after a completed sync the track rows stored for every fetched release are
\* exactly the entries the source returned for it that carry an id: rows of an
\* earlier sync that are no longer returned are gone, entries without an id are
\* skipped and the sync still completes, and every stored track has an id and
\* belongs to a stored release.
C26_TrackSetReplaced ==
  \A s \in Sessions : Completed(s) =>
    /\ \A i \in DOMAIN sync[s].df :
         StoredTracksOf(sync[s].df[i].id) = ReturnedIds(sync[s].albs[i])
    /\ \A k \in DOMAIN tracks : k \in TrackIds /\ tracks[k].release_id \in DOMAIN releases

\* a second sync has completed that fetched R2, for which the source returned no
\* track, and R3, whose answer held an entry without an id beside track T3
C26_Witness ==
  \E s \in Sessions :
    /\ Completed(s) /\ nSync = 2
    /\ \E i \in DOMAIN sync[s].df :
         sync[s].df[i].id = "R2" /\ sync[s].albs[i].items = << >> /\ StoredTracksOf("R2") = { }
    /\ \E i \in DOMAIN sync[s].df :
         /\ sync[s].df[i].id = "R3"
         /\ \E j \in DOMAIN sync[s].albs[i].items : sync[s].albs[i].items[j].id = None
         /\ StoredTracksOf("R3") = {"T3"}

\* the count is missing or is not a number
NoCount(row) == row.total_tracks = None \/ IsNotANumber(row.total_tracks)

\* C27: a missing or unparseable total track count on a fetched release counts as 0
\* in the ranking of its group and never makes the sync raise: the sync completes
\* and the release is not canonical in a group that holds a release with a positive
\* count and the same classification rank.
C27_BadCountRanksAsZero ==
  \A s \in Sessions :
    /\ sync[s].pc = "failed" => ~astype_int_raises(sync[s].df)
    /\ Completed(s) =>
         \A x, y \in Range(sync[s].df) :
           ( /\ GroupingKey(x) = GroupingKey(y)
             /\ NoCount(x) /\ ~NoCount(y) /\ Val(y.total_tracks) > 0 )
           => releases[x.id].is_variant

====
